---- MODULE Spec2Model ----
(***************************************************************************)
(* A model of barnacleboy's Sharp LR35902 core (src/src/cpu.rs), its flag  *)
(* constants (src/src/cpu/cpuconsts.rs) and the debugger's disassembler    *)
(* and breakpoints (src/src/debugger.rs).                                  *)
(*                                                                         *)
(* Five specifications share the variables:                                *)
(*   Spec        the register file and the CPU's operations                *)
(*   SpecDecode  the two opcode decoders, applied to every opcode byte     *)
(*   SpecDis     Debugger::disassemble over memory contents and addresses  *)
(*   SpecMem     the CPU's memory access helpers over an interconnect that *)
(*               rejects some addresses                                    *)
(*   SpecBkpt    Debugger::set_breakpoint and remove_breakpoint in sequence*)
(***************************************************************************)
EXTENDS Integers, Sequences, FiniteSets, TLC

VARIABLES
    endian,             \* cfg(target_endian): "little" or "big"
    overflow_checks,    \* the build: TRUE panics on integer overflow, FALSE wraps
    registers,          \* SharpLR35902.registers: the struct's 12 bytes of storage
    halted,             \* SharpLR35902.halted
    interrupt_pending,  \* SharpLR35902.interrupt_pending
    memory,             \* the interconnect's bytes
    memory0,            \* the interconnect's bytes when the behaviour began
    unmapped,           \* the addresses the interconnect rejects
    breakpoints,        \* Debugger.breakpoints: address -> saved byte
    status,             \* "ok", or "panic" once a call has panicked
    last,               \* the last call: its name, arguments and result
    prev,               \* the program state when the last call began
    nops                \* calls made so far

vars == <<endian, overflow_checks, registers, halted, interrupt_pending,
          memory, memory0, unmapped, breakpoints, status, last, prev, nops>>

(***************************************************************************)
(* Bounds of the model.                                                    *)
(***************************************************************************)
\* Calls made in one behaviour of Spec.
MaxOps == 2
\* How many sample values the written bytes and words are drawn from.
NumVals == 3
\* Memory is the MemWindow bytes below 0x10000 and the MemWindow bytes from 0.
MemWindow == 3

Byte == 0..255
Word == 0..65535

ByteVals == {255} \cup {(k * 91) % 256 : k \in 0..(NumVals - 1)}
WordVals == {(k * 43707) % 65536 : k \in 1..NumVals}

(***************************************************************************)
(* u8 and u16 arithmetic: the bitwise operators of the source, bit by bit. *)
(***************************************************************************)
Bit(v, k) == (v \div (2 ^ k)) % 2

\* a & b and a | b on the low n bits
BitAndN(a, b, n) ==
    LET and[k \in 0..n] ==
            IF k = n THEN 0
            ELSE (Bit(a, k) * Bit(b, k)) * (2 ^ k) + and[k + 1]
    IN  and[0]

BitOrN(a, b, n) ==
    LET or[k \in 0..n] ==
            IF k = n THEN 0
            ELSE (IF Bit(a, k) + Bit(b, k) > 0 THEN 2 ^ k ELSE 0) + or[k + 1]
    IN  or[0]

\* a & b, a | b, !a on u8; a >> k, a << k on u8 (the shifted-out bits are lost)
And8(a, b) == BitAndN(a, b, 8)
Or8(a, b) == BitOrN(a, b, 8)
Not8(a) == 255 - a
Shr8(a, k) == a \div (2 ^ k)
Shl8(a, k) == (a * (2 ^ k)) % 256
Or16(a, b) == BitOrN(a, b, 16)
And16(a, b) == BitAndN(a, b, 16)
Shl16(a, k) == (a * (2 ^ k)) % 65536

(***************************************************************************)
(* Flag masks.                                                             *)
(***************************************************************************)
F_ZERO == 128
F_SUBTRACT == 64
F_HALFCARRY == 32
F_CARRY == 16

FLAGS_ZERO_INDEX == 7
FLAGS_SUB_INDEX == 6
FLAGS_HALF_CARRY_INDEX == 5
FLAGS_CARRY_INDEX == 4

FLAG_ZERO == Shl8(1, FLAGS_ZERO_INDEX)
FLAG_SUB == Shl8(1, FLAGS_SUB_INDEX)
FLAG_CARRY == Shl8(1, FLAGS_CARRY_INDEX)
FLAG_HALF_CARRY == Shl8(1, FLAGS_HALF_CARRY_INDEX)

(***************************************************************************)
(* SharpLR35902Registers: repr(C), so each field sits at the byte offset   *)
(* its declaration order gives it.  The little-endian build declares       *)
(* f a c b e d l h pc sp, the big-endian build a f b c d e h l pc sp.      *)
(***************************************************************************)
\* The field offsets with each target given the other target's struct.
FieldOffsetSwapped(name) ==
    IF endian = "little"
    THEN CASE name = "a" -> 0 [] name = "f" -> 1 [] name = "b" -> 2
           [] name = "c" -> 3 [] name = "d" -> 4 [] name = "e" -> 5
           [] name = "h" -> 6 [] name = "l" -> 7 [] name = "pc" -> 8
           [] name = "sp" -> 10
    ELSE CASE name = "f" -> 0 [] name = "a" -> 1 [] name = "c" -> 2
           [] name = "b" -> 3 [] name = "e" -> 4 [] name = "d" -> 5
           [] name = "l" -> 6 [] name = "h" -> 7 [] name = "pc" -> 8
           [] name = "sp" -> 10

FieldOffset(name) ==
    IF endian = "little"
    THEN CASE name = "f" -> 0 [] name = "a" -> 1 [] name = "c" -> 2
           [] name = "b" -> 3 [] name = "e" -> 4 [] name = "d" -> 5
           [] name = "l" -> 6 [] name = "h" -> 7 [] name = "pc" -> 8
           [] name = "sp" -> 10
    ELSE CASE name = "a" -> 0 [] name = "f" -> 1 [] name = "b" -> 2
           [] name = "c" -> 3 [] name = "d" -> 4 [] name = "e" -> 5
           [] name = "h" -> 6 [] name = "l" -> 7 [] name = "pc" -> 8
           [] name = "sp" -> 10

\* DWordRegisters: repr(C), six u16 fields af bc de hl pc sp.
DWordOffset(name) ==
    CASE name = "af" -> 0 [] name = "bc" -> 2 [] name = "de" -> 4
      [] name = "hl" -> 6 [] name = "pc" -> 8 [] name = "sp" -> 10

\* A u16 load and store at byte offset o of the storage, in the target's byte order.
LoadU16(r, o) ==
    IF endian = "little" THEN r[o] + 256 * r[o + 1] ELSE 256 * r[o] + r[o + 1]

StoreU16(r, o, v) ==
    IF endian = "little"
    THEN [r EXCEPT ![o] = v % 256, ![o + 1] = v \div 256]
    ELSE [r EXCEPT ![o] = v \div 256, ![o + 1] = v % 256]

\* self.<name> of SharpLR35902Registers, read and written (u8 fields).
Reg(r, name) == r[FieldOffset(name)]
SetReg(r, name, v) == [r EXCEPT ![FieldOffset(name)] = v]

\* as_dwords(): the same storage read as DWordRegisters.
as_dwords(r, name) == LoadU16(r, DWordOffset(name))
as_dwords_set(r, name, v) == StoreU16(r, DWordOffset(name), v)

\* Default::default(): every field zero.
RegistersDefault == [o \in 0..11 |-> 0]

(***************************************************************************)
(* Flag operations on the register file.                                   *)
(***************************************************************************)
set_z(r) == SetReg(r, "f", Or8(Reg(r, "f"), F_ZERO))
set_s(r) == SetReg(r, "f", Or8(Reg(r, "f"), F_SUBTRACT))
set_h(r) == SetReg(r, "f", Or8(Reg(r, "f"), F_HALFCARRY))
set_c(r) == SetReg(r, "f", Or8(Reg(r, "f"), F_CARRY))

clear_z(r) == SetReg(r, "f", And8(Reg(r, "f"), Not8(F_ZERO)))
clear_s(r) == SetReg(r, "f", And8(Reg(r, "f"), Not8(F_SUBTRACT)))
\* clear_h without the `!` on its mask
clear_h_unnegated(r) == SetReg(r, "f", And8(Reg(r, "f"), F_HALFCARRY))
clear_h(r) == SetReg(r, "f", And8(Reg(r, "f"), Not8(F_HALFCARRY)))
clear_c(r) == SetReg(r, "f", And8(Reg(r, "f"), Not8(F_CARRY)))

z(r) == And8(Reg(r, "f"), F_ZERO) = F_ZERO
s(r) == And8(Reg(r, "f"), F_SUBTRACT) = F_SUBTRACT
h(r) == And8(Reg(r, "f"), F_HALFCARRY) = F_HALFCARRY
c(r) == And8(Reg(r, "f"), F_CARRY) = F_CARRY

(***************************************************************************)
(* Index<u8> / IndexMut<u8>: registers by number, pairs by number.  An     *)
(* index outside the match arms panics ("PANIC" stands for that).          *)
(***************************************************************************)
RegName(i) ==
    CASE i = 0 -> "b" [] i = 1 -> "c" [] i = 2 -> "d"
      [] i = 3 -> "e" [] i = 4 -> "h" [] i = 5 -> "l"
      [] i = 6 -> "f" [] i = 7 -> "a" [] OTHER -> "PANIC"

DWordName(i) ==
    CASE i = 0 -> "bc" [] i = 1 -> "de" [] i = 2 -> "hl"
      [] i = 3 -> "af" [] OTHER -> "PANIC"

index(r, i) == Reg(r, RegName(i))
index_mut(r, i, v) == SetReg(r, RegName(i), v)
dword_index(r, i) == as_dwords(r, DWordName(i))
dword_index_mut(r, i, v) == as_dwords_set(r, DWordName(i), v)

(***************************************************************************)
(* The two opcode decoders.                                                *)
(***************************************************************************)
\* OpcodeBits::from, with the q mask of a decoder that took bit 1 of y for bit 0.
OpcodeBits_from_q_bit1(op) ==
    LET x == Shr8(And8(op, 192), 6)
        y == Shr8(And8(op, 56), 3)
        zz == And8(op, 7)
        p == Shr8(And8(y, 6), 1)
        q == And8(y, 2)
    IN  [x |-> x, y |-> y, z |-> zz, p |-> p, q |-> q]

\* impl From<u8> for OpcodeBits (the executor's decoder)
OpcodeBits_from(op) ==
    LET x == Shr8(And8(op, 192), 6)
        y == Shr8(And8(op, 56), 3)
        zz == And8(op, 7)
        p == Shr8(And8(y, 6), 1)
        q == And8(y, 1)
    IN  [x |-> x, y |-> y, z |-> zz, p |-> p, q |-> q]

\* fn extract_x_y_z_p_q (the disassembler's decoder): the tuple (x, y, z, p, q)
extract_x_y_z_p_q(opcode) ==
    LET xyz == <<Shr8(And8(opcode, 192), 6),
                 Shr8(And8(opcode, 56), 3),
                 And8(opcode, 7)>>
        pq == <<Shr8(And8(xyz[2], 6), 1), And8(xyz[2], 1)>>
    IN  <<xyz[1], xyz[2], xyz[3], pq[1], pq[2]>>

(***************************************************************************)
(* The instruction functions of INSTRUCTIONS, on the register storage.     *)
(***************************************************************************)
nop(r, opcode) == r

\* ld_r_r with source and destination exchanged
ld_r_r_swapped(r, opcode) ==
    LET bits == OpcodeBits_from(opcode)
    IN  index_mut(r, bits.z, index(r, bits.y))

ld_r_r(r, opcode) ==
    LET bits == OpcodeBits_from(opcode)
    IN  index_mut(r, bits.y, index(r, bits.z))

(***************************************************************************)
(* The state of the program and the bookkeeping of a call.                 *)
(***************************************************************************)
\* Memory holds the bytes of a window that wraps around the top of the
\* 16-bit address space.
Addrs == {(65536 - MemWindow + k) % 65536 : k \in 0..(2 * MemWindow - 1)}

Snap == [registers |-> registers, halted |-> halted,
         interrupt_pending |-> interrupt_pending,
         memory |-> memory, breakpoints |-> breakpoints]

\* The empty HashMap
NoBreakpoints == <<>>

Begin == status = "ok" /\ nops < MaxOps

Record(l) ==
    /\ last' = l
    /\ prev' = Snap
    /\ nops' = nops + 1
    /\ UNCHANGED <<endian, overflow_checks, memory0, unmapped>>

\* SharpLR35902::new, on either target.  No operation of Spec does arithmetic
\* that can overflow, so the build's overflow checks are left off here; the
\* specifications whose operations add to addresses draw them.
Init ==
    /\ endian \in {"little", "big"}
    /\ overflow_checks = FALSE
    /\ registers = RegistersDefault
    /\ interrupt_pending = FALSE
    /\ halted = FALSE
    /\ memory = [a \in Addrs |-> 0]
    /\ memory0 = memory
    /\ unmapped = {}
    /\ breakpoints = NoBreakpoints
    /\ status = "ok"
    /\ last = [op |-> "new"]
    /\ prev = [registers |-> RegistersDefault, halted |-> FALSE,
               interrupt_pending |-> FALSE,
               memory |-> [a \in Addrs |-> 0], breakpoints |-> NoBreakpoints]
    /\ nops = 0

CpuRest == <<halted, interrupt_pending, memory, breakpoints, status>>

(***************************************************************************)
(* Register file operations.                                               *)
(***************************************************************************)
SetZ == Begin /\ registers' = set_z(registers)
        /\ Record([op |-> "set", flag |-> "z"]) /\ UNCHANGED CpuRest
SetS == Begin /\ registers' = set_s(registers)
        /\ Record([op |-> "set", flag |-> "s"]) /\ UNCHANGED CpuRest
SetH == Begin /\ registers' = set_h(registers)
        /\ Record([op |-> "set", flag |-> "h"]) /\ UNCHANGED CpuRest
SetC == Begin /\ registers' = set_c(registers)
        /\ Record([op |-> "set", flag |-> "c"]) /\ UNCHANGED CpuRest
ClearZ == Begin /\ registers' = clear_z(registers)
          /\ Record([op |-> "clear", flag |-> "z"]) /\ UNCHANGED CpuRest
ClearS == Begin /\ registers' = clear_s(registers)
          /\ Record([op |-> "clear", flag |-> "s"]) /\ UNCHANGED CpuRest
ClearH == Begin /\ registers' = clear_h(registers)
          /\ Record([op |-> "clear", flag |-> "h"]) /\ UNCHANGED CpuRest
ClearC == Begin /\ registers' = clear_c(registers)
          /\ Record([op |-> "clear", flag |-> "c"]) /\ UNCHANGED CpuRest

\* registers[i] = v
WriteReg ==
    /\ Begin
    /\ \E i \in 0..7, v \in ByteVals :
          /\ registers' = index_mut(registers, i, v)
          /\ Record([op |-> "write_reg", i |-> i, v |-> v])
    /\ UNCHANGED CpuRest

\* registers.as_dwords()[i] = v
WritePair ==
    /\ Begin
    /\ \E i \in 0..3, v \in WordVals :
          /\ registers' = dword_index_mut(registers, i, v)
          /\ Record([op |-> "write_pair", i |-> i, v |-> v])
    /\ UNCHANGED CpuRest

(***************************************************************************)
(* The instruction functions, called on the CPU.                           *)
(***************************************************************************)
\* ld_r_r reads only y and z: the opcodes of the x = 1 block give every
\* (y, z), and three opcodes of the other blocks are called as well.
\* The opcode the disassembler names halt: x = 1, y = 6, z = 6.
HALT == 118
LdOpcodes == (64..127) \cup {10, 177, 245}
NopOpcodes == {0, HALT}

Nop ==
    /\ Begin
    /\ \E opcode \in NopOpcodes :
          /\ registers' = nop(registers, opcode)
          /\ Record([op |-> "nop", opcode |-> opcode, ret |-> "Ok"])
    /\ UNCHANGED CpuRest

LdRR ==
    /\ Begin
    /\ \E opcode \in LdOpcodes :
          /\ registers' = ld_r_r(registers, opcode)
          /\ Record([op |-> "ld_r_r", opcode |-> opcode, ret |-> "Ok"])
    /\ UNCHANGED CpuRest

(***************************************************************************)
(* impl Cpu for SharpLR35902: each method is unimplemented!(), which       *)
(* panics before it touches the CPU.  ran and cycles are the instructions  *)
(* the call executed and the cycle costs it accumulated.                   *)
(***************************************************************************)
CycleBounds == 0..NumVals

Execute ==
    /\ Begin
    /\ status' = "panic"
    /\ Record([op |-> "execute", ret |-> "panic", ran |-> 0, cycles |-> 0])
    /\ UNCHANGED <<registers, halted, interrupt_pending, memory, breakpoints>>

ExecuteWithCycles ==
    /\ Begin
    /\ \E cycle_bound \in CycleBounds :
          Record([op |-> "execute_with_cycles", cycle_bound |-> cycle_bound,
                  ret |-> "panic", ran |-> 0, cycles |-> 0])
    /\ status' = "panic"
    /\ UNCHANGED <<registers, halted, interrupt_pending, memory, breakpoints>>

Step ==
    /\ Begin
    /\ status' = "panic"
    /\ Record([op |-> "step", ret |-> "panic", ran |-> 0, cycles |-> 0,
               fetched |-> 0])
    /\ UNCHANGED <<registers, halted, interrupt_pending, memory, breakpoints>>

Next ==
    \/ SetZ \/ SetS \/ SetH \/ SetC
    \/ ClearZ \/ ClearS \/ ClearH \/ ClearC
    \/ WriteReg \/ WritePair
    \/ Nop \/ LdRR
    \/ Execute \/ ExecuteWithCycles \/ Step

Spec == Init /\ [][Next]_vars

(***************************************************************************)
(* SpecDecode: both decoders applied to an opcode byte.                    *)
(***************************************************************************)
InitDecode ==
    /\ endian = "little"
    /\ overflow_checks = FALSE
    /\ registers = RegistersDefault
    /\ interrupt_pending = FALSE
    /\ halted = FALSE
    /\ memory = [a \in Addrs |-> 0]
    /\ memory0 = memory
    /\ unmapped = {}
    /\ breakpoints = NoBreakpoints
    /\ status = "ok"
    /\ \E opcode \in Byte : last = [op |-> "opcode", opcode |-> opcode]
    /\ prev = [registers |-> RegistersDefault, halted |-> FALSE,
               interrupt_pending |-> FALSE,
               memory |-> [a \in Addrs |-> 0], breakpoints |-> NoBreakpoints]
    /\ nops = 0

Decode ==
    /\ last.op = "opcode"
    /\ last' = [op |-> "decode", opcode |-> last.opcode,
                bits |-> OpcodeBits_from(last.opcode),
                tuple |-> extract_x_y_z_p_q(last.opcode)]
    /\ prev' = Snap
    /\ nops' = nops + 1
    /\ UNCHANGED <<endian, overflow_checks, registers, halted,
                   interrupt_pending, memory, memory0, unmapped,
                   breakpoints, status>>

NextDecode == Decode

SpecDecode == InitDecode /\ [][NextDecode]_vars

(***************************************************************************)
(* Text formatting: format!'s {:x} and {} of an integer.                   *)
(***************************************************************************)
Digits == <<"0", "1", "2", "3", "4", "5", "6", "7", "8", "9",
            "a", "b", "c", "d", "e", "f">>

RECURSIVE Hex(_)
Hex(n) == IF n < 16 THEN Digits[n + 1]
          ELSE Hex(n \div 16) \o Digits[(n % 16) + 1]

RECURSIVE DecNat(_)
DecNat(n) == IF n < 10 THEN Digits[n + 1]
             ELSE DecNat(n \div 10) \o Digits[(n % 10) + 1]

Dec(n) == IF n < 0 THEN "-" \o DecNat(0 - n) ELSE DecNat(n)

RECURSIVE Concat(_)
Concat(parts) == IF parts = <<>> THEN "" ELSE Head(parts) \o Concat(Tail(parts))

\* `b as i16` of a u8 (zero-extended) and `b as i8` of a u8 (reinterpreted)
u8_as_i16(b) == b
u8_as_i8(b) == IF b >= 128 THEN b - 256 ELSE b

\* ((bytes[2] as u16) << 8) | (0x00FF & (bytes[1] as u16))
Imm16(bytes) == Or16(Shl16(bytes[3], 8), And16(255, bytes[2]))

(***************************************************************************)
(* The disassembler's name tables.  Lookup is a slice index: it panics     *)
(* ("PANIC") past the end of the table.                                    *)
(***************************************************************************)
R_STR == <<"b", "c", "d", "e", "h", "l", "(hl)", "a">>
RP_STR == <<"bc", "de", "hl", "sp">>
RP2_STR == <<"bc", "de", "hl", "af">>
CC_STR == <<" nz", " z", " nc", " c">>
ALU_STR == <<"add a,", "adc a,", "sub", "sbc a,", "and", "xor", "or", "cp">>
ROT_STR == <<"rlc", "rrc", "rl", "rr", "sla", "sra", "swap", "srl">>

Lookup(table, i) == IF i >= 0 /\ i < Len(table) THEN table[i + 1] ELSE "PANIC"

\* One arm's result: the pieces format! joins, the length it returns, and
\* how many of bytes[1], bytes[2] the arm reads.
Arm(parts, len, operands) == [parts |-> parts, len |-> len, operands |-> operands]

(***************************************************************************)
(* Debugger::disassemble: the match on (x, y, z, p, q), arm by arm in the  *)
(* order of the source (the first arm that matches is taken).              *)
(***************************************************************************)
\* the last arm: `_ => (String::from("nop"), 1)`
FallThrough == Arm(<<"nop">>, 1, 0)

\* the two jr arms, (0, 3, 0, _, _) and (0, 4...7, 0, _, _)
JrArm(bytes, y) ==
    Arm(<<"jr">>
        \o (IF y >= 4 /\ y <= 7 THEN <<Lookup(CC_STR, y - 4)>> ELSE <<>>)
        \o <<" ", Dec(u8_as_i16(bytes[2]))>>, 2, 1)

DisX0(bytes, y, zz, p, q) ==
    IF zz = 0 THEN
        IF y = 0 THEN Arm(<<"nop">>, 1, 0)
        ELSE IF y = 1 THEN Arm(<<"ld (0x", Hex(Imm16(bytes)), "), sp">>, 3, 2)
        ELSE IF y = 2 THEN Arm(<<"stop">>, 1, 0)
        ELSE JrArm(bytes, y)
    ELSE IF zz = 1 THEN
        IF q = 0
        THEN Arm(<<"ld ", Lookup(RP_STR, p), ", 0x", Hex(Imm16(bytes))>>, 3, 2)
        ELSE Arm(<<"add hl, ", Lookup(RP_STR, p)>>, 1, 0)
    ELSE IF zz = 2 THEN
        IF q = 0 THEN
            IF p = 0 THEN Arm(<<"ld (bc), a">>, 1, 0)
            ELSE IF p = 1 THEN Arm(<<"ld (de), a">>, 1, 0)
            ELSE IF p = 2 THEN Arm(<<"ld (hl+), a">>, 1, 0)
            ELSE Arm(<<"ld (hl-), a">>, 1, 0)
        ELSE
            IF p = 0 THEN Arm(<<"ld a, (bc)">>, 1, 0)
            ELSE IF p = 1 THEN Arm(<<"ld a, (de)">>, 1, 0)
            ELSE IF p = 2 THEN Arm(<<"ld a, (hl+)">>, 1, 0)
            ELSE Arm(<<"ld a, (hl-)">>, 1, 0)
    ELSE IF zz = 3 THEN
        IF q = 0 THEN Arm(<<"inc ", Lookup(RP_STR, p)>>, 1, 0)
        ELSE Arm(<<"dec ", Lookup(RP_STR, p)>>, 1, 0)
    ELSE IF zz = 4 THEN Arm(<<"inc ", Lookup(R_STR, y)>>, 1, 0)
    ELSE IF zz = 5 THEN Arm(<<"dec ", Lookup(R_STR, y)>>, 1, 0)
    ELSE IF zz = 6
    THEN Arm(<<"ld ", Lookup(R_STR, y), ", 0x", Hex(bytes[2])>>, 2, 1)
    ELSE
        IF y = 0 THEN Arm(<<"rlca">>, 1, 0)
        ELSE IF y = 1 THEN Arm(<<"rrca">>, 1, 0)
        ELSE IF y = 2 THEN Arm(<<"rla">>, 1, 0)
        ELSE IF y = 3 THEN Arm(<<"rra">>, 1, 0)
        ELSE IF y = 4 THEN Arm(<<"daa">>, 1, 0)
        ELSE IF y = 5 THEN Arm(<<"cpl">>, 1, 0)
        ELSE IF y = 6 THEN Arm(<<"scf">>, 1, 0)
        ELSE Arm(<<"ccf">>, 1, 0)

DisX1(bytes, y, zz, p, q) ==
    IF y = 6 /\ zz = 6 THEN Arm(<<"halt">>, 1, 0)
    ELSE Arm(<<"ld ", Lookup(R_STR, y), ", ", Lookup(R_STR, zz)>>, 1, 0)

DisX2(bytes, y, zz, p, q) ==
    Arm(<<Lookup(ALU_STR, y), " ", Lookup(R_STR, zz)>>, 1, 0)

\* the arm (3, 1, 3, _, _): the CB prefix, decoded from bytes[1]
DisCB(bytes) ==
    LET t == extract_x_y_z_p_q(bytes[2])
        x == t[1]
        y == t[2]
        zz == t[3]
    IN  IF x = 0 THEN Arm(<<Lookup(ROT_STR, y), " ", Lookup(R_STR, zz)>>, 2, 1)
        ELSE IF x = 1 THEN Arm(<<"bit ", Dec(y), ", ", Lookup(R_STR, zz)>>, 2, 1)
        ELSE IF x = 2 THEN Arm(<<"res ", Dec(y), ", ", Lookup(R_STR, zz)>>, 2, 1)
        ELSE IF x = 3 THEN Arm(<<"set ", Dec(y), ", ", Lookup(R_STR, zz)>>, 2, 1)
        ELSE Arm(<<"Unknown prefixed op">>, 2, 1)

\* the arms with x = 3, z = 2
DisX3_z2(bytes, y) ==
    IF y <= 3
    THEN Arm(<<"jp ", Lookup(CC_STR, y), " ", Dec(Imm16(bytes))>>, 2, 2)
    ELSE IF y = 4 THEN Arm(<<"ld (0xff00+c), a">>, 1, 0)
    ELSE IF y = 5 THEN Arm(<<"ld (", Hex(Imm16(bytes)), "), a">>, 3, 2)
    ELSE IF y = 6 THEN Arm(<<"ld a, (0xff00+c)">>, 1, 0)
    ELSE Arm(<<"ld a, (", Hex(Imm16(bytes)), ")">>, 3, 2)

DisX3(bytes, y, zz, p, q) ==
    IF zz = 0 THEN
        IF y <= 3 THEN Arm(<<"ret ", Lookup(CC_STR, y)>>, 1, 0)
        ELSE IF y = 4 THEN Arm(<<"ld 0xff00+0x", Hex(bytes[2]), ", a">>, 2, 1)
        ELSE IF y = 5 THEN Arm(<<"add sp, ", Dec(u8_as_i8(bytes[2]))>>, 2, 1)
        ELSE IF y = 6 THEN Arm(<<"ld a, 0xff00+0x", Hex(bytes[2])>>, 2, 1)
        ELSE Arm(<<"ld hl, sp+", Dec(u8_as_i8(bytes[2]))>>, 2, 1)
    ELSE IF zz = 1 THEN
        IF q = 0 THEN Arm(<<"pop ", Lookup(RP2_STR, p)>>, 1, 0)
        ELSE IF p = 0 THEN Arm(<<"ret">>, 1, 0)
        ELSE IF p = 1 THEN Arm(<<"reti">>, 1, 0)
        ELSE IF p = 2 THEN Arm(<<"jp (hl)">>, 1, 0)
        ELSE Arm(<<"ld sp, hl">>, 1, 0)
    ELSE IF zz = 2 THEN DisX3_z2(bytes, y)
    ELSE IF zz = 3 THEN
        IF y = 0 THEN Arm(<<"jp ", Hex(Imm16(bytes))>>, 3, 2)
        ELSE IF y = 1 THEN DisCB(bytes)
        ELSE IF y <= 5 THEN Arm(<<"nop">>, 1, 0)
        ELSE IF y = 6 THEN Arm(<<"di">>, 1, 0)
        ELSE Arm(<<"ei">>, 1, 0)
    ELSE IF zz = 4 THEN
        IF y <= 3
        THEN Arm(<<"call ", Lookup(CC_STR, y), " 0x", Hex(Imm16(bytes))>>, 3, 2)
        ELSE FallThrough
    ELSE IF zz = 5 THEN
        IF q = 0 THEN Arm(<<"push ", Lookup(RP2_STR, p)>>, 1, 0)
        ELSE IF p = 0 THEN Arm(<<"call 0x", Hex(Imm16(bytes))>>, 3, 2)
        ELSE FallThrough
    ELSE IF zz = 6 THEN Arm(<<Lookup(ALU_STR, y), " ", Hex(bytes[2])>>, 2, 1)
    ELSE Arm(<<"rst 0x", Hex((y * 8) % 256)>>, 1, 0)

\* The match of disassemble on the three bytes fetched: the arm taken.
DisMatch(bytes) ==
    LET t == extract_x_y_z_p_q(bytes[1])
        x == t[1]
        y == t[2]
        zz == t[3]
        p == t[4]
        q == t[5]
    IN  IF x = 0 THEN DisX0(bytes, y, zz, p, q)
        ELSE IF x = 1 THEN DisX1(bytes, y, zz, p, q)
        ELSE IF x = 2 THEN DisX2(bytes, y, zz, p, q)
        ELSE IF x = 3 THEN DisX3(bytes, y, zz, p, q)
        ELSE FallThrough

(***************************************************************************)
(* The interconnect, as the debugger uses it.                              *)
(***************************************************************************)
mem_read_byte(m, addr) == m[addr]
mem_write_byte(m, addr, data) == [m EXCEPT ![addr] = data]

\* The operands of the three mem_read_byte calls: addr, addr + 1, addr + 2,
\* as sums not yet reduced to 16 bits.
FetchAddrs(addr) == <<addr, addr + 1, addr + 2>>

\* A sum that does not fit in u16: the build with overflow checks panics on
\* it, the build without wraps it.
Overflows(sum) == sum > 65535
Wrap16(sum) == sum % 65536

\* How many of the three reads are made: all of them, or those before the
\* first sum on which the build panics.
ReadsMade(addr) ==
    LET sums == FetchAddrs(addr)
        bad == {k \in 1..Len(sums) : Overflows(sums[k])}
    IN  IF overflow_checks /\ bad # {}
        THEN (CHOOSE k \in bad : \A j \in bad : k <= j) - 1
        ELSE Len(sums)

\* disassemble with a breakpoint's saved byte put back before the fetch
disassemble_ic_unpatching(m, addr) ==
    IF addr \in DOMAIN breakpoints
    THEN mem_write_byte(m, addr, breakpoints[addr])
    ELSE m

\* The interconnect after disassemble(ic, addr): the body calls
\* ic.mem_read_byte and nothing else of ic.
disassemble_ic(m, addr) == m

\* disassemble(ic, addr): what the call returns, or that it panicked.
disassemble(m, addr) ==
    LET sums == FetchAddrs(addr)
        made == ReadsMade(addr)
        reads == [k \in 1..made |-> Wrap16(sums[k])]
        overflow == \E k \in 1..Len(sums) : Overflows(sums[k])
    IN  IF made < Len(sums)
        THEN [op |-> "disassemble", addr |-> addr, ret |-> "panic",
              reads |-> reads, overflow |-> overflow]
        ELSE LET bytes == [k \in 1..3 |-> mem_read_byte(m, reads[k])]
                 arm == DisMatch(bytes)
             IN  IF \E k \in 1..Len(arm.parts) : arm.parts[k] = "PANIC"
                 THEN [op |-> "disassemble", addr |-> addr, ret |-> "panic",
                       reads |-> reads, overflow |-> overflow]
                 ELSE [op |-> "disassemble", addr |-> addr, ret |-> "Ok",
                       reads |-> reads, overflow |-> overflow,
                       bytes |-> bytes, text |-> Concat(arm.parts),
                       len |-> arm.len, operands |-> arm.operands]

(***************************************************************************)
(* Debugger::set_breakpoint and remove_breakpoint, on the interconnect's   *)
(* bytes m and the breakpoint map bp.                                      *)
(***************************************************************************)
BREAKPOINT == 219

\* set_breakpoint that writes the marker before it saves the byte
set_breakpoint_marker_first(m, bp, addr) ==
    IF addr \notin DOMAIN bp
    THEN LET m2 == mem_write_byte(m, addr, BREAKPOINT) IN
         [ret |-> "Ok",
          breakpoints |-> [a \in DOMAIN bp \cup {addr} |->
                              IF a = addr THEN mem_read_byte(m2, addr) ELSE bp[a]],
          memory |-> m2]
    ELSE [ret |-> "Err", breakpoints |-> bp, memory |-> m]

set_breakpoint(m, bp, addr) ==
    IF addr \notin DOMAIN bp
    THEN [ret |-> "Ok",
          breakpoints |-> [a \in DOMAIN bp \cup {addr} |->
                              IF a = addr THEN mem_read_byte(m, addr) ELSE bp[a]],
          memory |-> mem_write_byte(m, addr, BREAKPOINT)]
    ELSE [ret |-> "Err", breakpoints |-> bp, memory |-> m]

remove_breakpoint(m, bp, addr) ==
    IF addr \in DOMAIN bp
    THEN [ret |-> "Ok",
          breakpoints |-> [a \in DOMAIN bp \ {addr} |-> bp[a]],
          memory |-> mem_write_byte(m, addr, bp[addr])]
    ELSE [ret |-> "Err", breakpoints |-> bp, memory |-> m]

(***************************************************************************)
(* SpecDis: disassemble, called on a memory that holds one instruction,    *)
(* with or without a breakpoint set on it.                                 *)
(***************************************************************************)
\* The addresses whose three bytes lie in the window.
DisAddrs == {a \in Addrs : Wrap16(a + 1) \in Addrs /\ Wrap16(a + 2) \in Addrs}
\* Second and third bytes of the instruction in memory; after the CB prefix
\* the second byte is any byte.
Imm1 == {52, 66, 254}
Imm2 == {18}
CB_PREFIX == 203

\* Memory with the bytes b0 b1 b2 at address at, zero elsewhere.
Loaded(at, b0, b1, b2) ==
    [a \in Addrs |-> IF a = at THEN b0
                     ELSE IF a = Wrap16(at + 1) THEN b1
                     ELSE IF a = Wrap16(at + 2) THEN b2
                     ELSE 0]

InitDis ==
    /\ endian = "little"
    /\ overflow_checks \in BOOLEAN
    /\ registers = RegistersDefault
    /\ interrupt_pending = FALSE
    /\ halted = FALSE
    /\ \E at \in DisAddrs, b0 \in Byte, b2 \in Imm2, bkpt \in BOOLEAN :
       \E b1 \in (IF b0 = CB_PREFIX THEN Byte ELSE Imm1) :
          LET m == Loaded(at, b0, b1, b2)
              set == set_breakpoint(m, NoBreakpoints, at)
          IN  /\ memory = IF bkpt THEN set.memory ELSE m
              /\ memory0 = m
              /\ breakpoints = IF bkpt THEN set.breakpoints ELSE NoBreakpoints
              /\ last = IF bkpt
                        THEN [op |-> "set_breakpoint", addr |-> at, ret |-> set.ret]
                        ELSE [op |-> "load", addr |-> at]
              /\ prev = [registers |-> RegistersDefault, halted |-> FALSE,
                         interrupt_pending |-> FALSE,
                         memory |-> m, breakpoints |-> NoBreakpoints]
    /\ unmapped = {}
    /\ status = "ok"
    /\ nops = 0

\* One call in a behaviour: the call changes nothing a second call reads.
Disassemble ==
    /\ status = "ok"
    /\ nops = 0
    /\ \E addr \in DisAddrs :
       \E r \in {disassemble(memory, addr)} :
          /\ Record(r)
          /\ memory' = disassemble_ic(memory, addr)
          /\ status' = IF r.ret = "panic" THEN "panic" ELSE "ok"
    /\ UNCHANGED <<registers, halted, interrupt_pending, breakpoints>>

NextDis == Disassemble

SpecDis == InitDis /\ [][NextDis]_vars

(***************************************************************************)
(* The MemoryInterface behind SharpLR35902.memory_controller: read and     *)
(* write fail with the LRError of the address when the address is one the  *)
(* interconnect rejects.                                                   *)
(***************************************************************************)
NoError == [kind |-> "none", addr |-> 0]
LRError(kind, addr) == [kind |-> kind, addr |-> addr]

MemoryInterface_read(m, addr) ==
    IF addr \in unmapped
    THEN [ret |-> "Err", value |-> 0, err |-> LRError("InvalidMemoryRead", addr)]
    ELSE [ret |-> "Ok", value |-> m[addr], err |-> NoError]

MemoryInterface_write(m, addr, data) ==
    IF addr \in unmapped
    THEN [ret |-> "Err", memory |-> m, err |-> LRError("InvalidMemoryWrite", addr)]
    ELSE [ret |-> "Ok", memory |-> [m EXCEPT ![addr] = data], err |-> NoError]

(***************************************************************************)
(* The memory access helpers of SharpLR35902.  Each returns what the call  *)
(* returned (or that it panicked), the registers and memory it left, and   *)
(* the interconnect calls it made, in order.                               *)
(***************************************************************************)
Access(kind, addr) == [kind |-> kind, addr |-> addr]

\* self.registers.pc, read and written
pc(r) == LoadU16(r, FieldOffset("pc"))
set_pc(r, v) == StoreU16(r, FieldOffset("pc"), v)

\* let pc = self.registers.pc; self.registers.pc += 1; read(pc)?
read_instruction_byte(r, m) ==
    LET old == pc(r)
        sum == old + 1
        res == MemoryInterface_read(m, old)
    IN  IF overflow_checks /\ Overflows(sum)
        THEN [ret |-> "panic", value |-> 0, err |-> NoError,
              registers |-> r, memory |-> m, accesses |-> <<>>]
        ELSE [ret |-> res.ret, value |-> res.value, err |-> res.err,
              registers |-> set_pc(r, Wrap16(sum)), memory |-> m,
              accesses |-> <<Access("read", old)>>]

read_hl(r, m) ==
    LET hl == as_dwords(r, "hl")
        res == MemoryInterface_read(m, hl)
    IN  [ret |-> res.ret, value |-> res.value, err |-> res.err,
         registers |-> r, memory |-> m, accesses |-> <<Access("read", hl)>>]

write(r, m, addr, data) ==
    LET res == MemoryInterface_write(m, addr, data)
    IN  [ret |-> res.ret, value |-> 0, err |-> res.err,
         registers |-> r, memory |-> res.memory,
         accesses |-> <<Access("write", addr)>>]

write_hl(r, m, data) ==
    LET hl == as_dwords(r, "hl")
        res == MemoryInterface_write(m, hl, data)
    IN  [ret |-> res.ret, value |-> 0, err |-> res.err,
         registers |-> r, memory |-> res.memory,
         accesses |-> <<Access("write", hl)>>]

(***************************************************************************)
(* SpecMem: one helper called on a CPU whose PC and HL point into the      *)
(* window, over an interconnect that rejects some of its addresses.        *)
(***************************************************************************)
\* The byte each address holds: a different one at each.
Content(a) == (a * 37 + 17) % 256

\* The sets of addresses the interconnect may reject.
UnmappedSets == {{}, {0}, {65535, 1}}

InitMem ==
    /\ endian \in {"little", "big"}
    /\ overflow_checks \in BOOLEAN
    /\ \E p \in Addrs, hl \in Addrs :
          registers = as_dwords_set(set_pc(RegistersDefault, p), "hl", hl)
    /\ interrupt_pending = FALSE
    /\ halted = FALSE
    /\ memory = [a \in Addrs |-> Content(a)]
    /\ memory0 = memory
    /\ unmapped \in UnmappedSets
    /\ breakpoints = NoBreakpoints
    /\ status = "ok"
    /\ last = [op |-> "new"]
    /\ prev = [registers |-> registers, halted |-> FALSE,
               interrupt_pending |-> FALSE,
               memory |-> memory, breakpoints |-> NoBreakpoints]
    /\ nops = 0

Once == status = "ok" /\ nops = 0

\* The call r of helper op with arguments args, applied to the CPU.
Helper(op, args, r) ==
    /\ Record([op |-> op, args |-> args, ret |-> r.ret, value |-> r.value,
               err |-> r.err, accesses |-> r.accesses])
    /\ registers' = r.registers
    /\ memory' = r.memory
    /\ status' = IF r.ret = "panic" THEN "panic" ELSE "ok"
    /\ UNCHANGED <<halted, interrupt_pending, breakpoints>>

ReadInstructionByte ==
    /\ Once
    /\ Helper("read_instruction_byte", <<>>,
              read_instruction_byte(registers, memory))

ReadHL ==
    /\ Once
    /\ Helper("read_hl", <<>>, read_hl(registers, memory))

Write ==
    /\ Once
    /\ \E addr \in Addrs, data \in ByteVals :
          Helper("write", <<addr, data>>, write(registers, memory, addr, data))

WriteHL ==
    /\ Once
    /\ \E data \in ByteVals :
          Helper("write_hl", <<data>>, write_hl(registers, memory, data))

NextMem == ReadInstructionByte \/ ReadHL \/ Write \/ WriteHL

SpecMem == InitMem /\ [][NextMem]_vars

(***************************************************************************)
(* SpecBkpt: set_breakpoint and remove_breakpoint called in any order on   *)
(* the addresses of the window; nothing else writes memory.                *)
(***************************************************************************)
InitBkpt ==
    /\ endian = "little"
    /\ overflow_checks = FALSE
    /\ registers = RegistersDefault
    /\ interrupt_pending = FALSE
    /\ halted = FALSE
    /\ memory \in {[a \in Addrs |-> Content(a)], [a \in Addrs |-> BREAKPOINT]}
    /\ memory0 = memory
    /\ unmapped = {}
    /\ breakpoints = NoBreakpoints
    /\ status = "ok"
    /\ last = [op |-> "new"]
    /\ prev = [registers |-> RegistersDefault, halted |-> FALSE,
               interrupt_pending |-> FALSE,
               memory |-> memory, breakpoints |-> NoBreakpoints]
    /\ nops = 0

BeginBkpt == status = "ok" /\ nops <= MaxOps

SetBreakpoint ==
    /\ BeginBkpt
    /\ \E addr \in Addrs :
          LET r == set_breakpoint(memory, breakpoints, addr) IN
          /\ Record([op |-> "set_breakpoint", addr |-> addr, ret |-> r.ret])
          /\ breakpoints' = r.breakpoints
          /\ memory' = r.memory
    /\ UNCHANGED <<registers, halted, interrupt_pending, status>>

RemoveBreakpoint ==
    /\ BeginBkpt
    /\ \E addr \in Addrs :
          LET r == remove_breakpoint(memory, breakpoints, addr) IN
          /\ Record([op |-> "remove_breakpoint", addr |-> addr, ret |-> r.ret])
          /\ breakpoints' = r.breakpoints
          /\ memory' = r.memory
    /\ UNCHANGED <<registers, halted, interrupt_pending, status>>

NextBkpt == SetBreakpoint \/ RemoveBreakpoint

SpecBkpt == InitBkpt /\ [][NextBkpt]_vars

(***************************************************************************)
(* Claims about the register file (checked under Spec).                    *)
(***************************************************************************)
PairNames == {"af", "bc", "de", "hl"}
PairHi(pair) == CASE pair = "af" -> "a" [] pair = "bc" -> "b"
                  [] pair = "de" -> "d" [] pair = "hl" -> "h"
PairLo(pair) == CASE pair = "af" -> "f" [] pair = "bc" -> "c"
                  [] pair = "de" -> "e" [] pair = "hl" -> "l"
Reg8Names == {"a", "f", "b", "c", "d", "e", "h", "l"}

\* C1: for each pair AF, BC, DE, HL the 16-bit view reads
\* 256 * first-named register + second-named register, whatever was written
\* to the two registers; a register write by index reads back the value
\* written; and after a 16-bit value v is written to a pair, the first-named
\* register reads v div 256, the second v mod 256, and no other register,
\* nor PC, nor SP has changed.
C1_PairRoundTrip ==
    /\ \A pair \in PairNames :
          as_dwords(registers, pair)
             = 256 * Reg(registers, PairHi(pair)) + Reg(registers, PairLo(pair))
    /\ last.op = "write_reg" =>
          /\ index(registers, last.i) = last.v
          /\ \A n \in Reg8Names \ {RegName(last.i)} :
                Reg(registers, n) = Reg(prev.registers, n)
    /\ last.op = "write_pair" =>
          LET pair == DWordName(last.i) IN
          /\ Reg(registers, PairHi(pair)) = last.v \div 256
          /\ Reg(registers, PairLo(pair)) = last.v % 256
          /\ dword_index(registers, last.i) = last.v
          /\ \A n \in Reg8Names \ {PairHi(pair), PairLo(pair)} :
                Reg(registers, n) = Reg(prev.registers, n)
          /\ as_dwords(registers, "pc") = as_dwords(prev.registers, "pc")
          /\ as_dwords(registers, "sp") = as_dwords(prev.registers, "sp")

\* 0xAABB written to AF after another register was given the value 0x5B
C1_Witness ==
    /\ last.op = "write_pair" /\ last.i = 3 /\ last.v = 43707
    /\ Reg(registers, "a") = 170 /\ Reg(registers, "f") = 187
    /\ \E n \in Reg8Names \ {"a", "f"} : Reg(registers, n) = 91

FlagIndex(flag) ==
    CASE flag = "z" -> FLAGS_ZERO_INDEX [] flag = "s" -> FLAGS_SUB_INDEX
      [] flag = "h" -> FLAGS_HALF_CARRY_INDEX [] flag = "c" -> FLAGS_CARRY_INDEX
FlagTest(r, flag) ==
    CASE flag = "z" -> z(r) [] flag = "s" -> s(r)
      [] flag = "h" -> h(r) [] flag = "c" -> c(r)

\* C2: after set_X the test of X is true and after clear_X it is false, for
\* X in Z, N, H, C and every prior flags byte; every other bit of F and every
\* other register keeps its prior value; the tests read bits 7, 6, 5, 4 of F.
C2_FlagsIndependent ==
    /\ F_ZERO = FLAG_ZERO /\ F_SUBTRACT = FLAG_SUB
    /\ F_HALFCARRY = FLAG_HALF_CARRY /\ F_CARRY = FLAG_CARRY
    /\ \A flag \in {"z", "s", "h", "c"} :
          FlagTest(registers, flag)
             <=> Bit(Reg(registers, "f"), FlagIndex(flag)) = 1
    /\ last.op \in {"set", "clear"} =>
          /\ FlagTest(registers, last.flag) <=> (last.op = "set")
          /\ \A k \in (0..7) \ {FlagIndex(last.flag)} :
                Bit(Reg(registers, "f"), k) = Bit(Reg(prev.registers, "f"), k)
          /\ \A n \in Reg8Names \ {"f"} :
                Reg(registers, n) = Reg(prev.registers, n)
          /\ as_dwords(registers, "pc") = as_dwords(prev.registers, "pc")
          /\ as_dwords(registers, "sp") = as_dwords(prev.registers, "sp")

\* clear_h on a flags byte of 0xFF: H goes, the seven other bits stay
C2_Witness ==
    /\ last.op = "clear" /\ last.flag = "h"
    /\ Reg(prev.registers, "f") = 255
    /\ Reg(registers, "f") = 223

(***************************************************************************)
(* Claims about the decoders (SpecDecode) and the disassembler (SpecDis).  *)
(***************************************************************************)
\* C3: for every opcode byte, OpcodeBits::from and extract_x_y_z_p_q return
\* the same five fields, x = op div 64, y = (op div 8) mod 8, z = op mod 8,
\* p = y div 2, q = y mod 2, so that op = 64x + 8y + z and y = 2p + q;
\* 0b1010_1010 gives x = 2, y = 5, z = 2, p = 2, q = 1.
C3_DecodersAgree ==
    last.op = "decode" =>
       LET b == last.bits
           t == last.tuple
           opcode == last.opcode
       IN  /\ t = <<b.x, b.y, b.z, b.p, b.q>>
           /\ b.x = opcode \div 64
           /\ b.y = (opcode \div 8) % 8
           /\ b.z = opcode % 8
           /\ b.p = b.y \div 2
           /\ b.q = b.y % 2
           /\ opcode = 64 * b.x + 8 * b.y + b.z
           /\ b.y = 2 * b.p + b.q
           /\ opcode = 170 => t = <<2, 5, 2, 2, 1>>

C3_Witness ==
    /\ last.op = "decode" /\ last.opcode = 170
    /\ last.tuple = <<2, 5, 2, 2, 1>>
    /\ last.bits = [x |-> 2, y |-> 5, z |-> 2, p |-> 2, q |-> 1]

\* 0xD3 0xDB 0xDD 0xE3 0xE4 0xEB 0xEC 0xED 0xF4 0xFC 0xFD
IllegalOpcodes == {211, 219, 221, 227, 228, 235, 236, 237, 244, 252, 253}

\* C4: disassemble returns ("undefined opcode", 1) exactly when the first
\* byte is an illegal base slot, a mnemonic that is neither that nor a
\* placeholder for every other first byte (and every byte after the CB
\* prefix), and "nop" for no illegal slot.
C4_UndefinedOpcodes ==
    (last.op = "disassemble" /\ last.ret = "Ok") =>
       LET b0 == last.bytes[1] IN
       /\ (last.text = "undefined opcode" /\ last.len = 1)
             <=> b0 \in IllegalOpcodes
       /\ b0 \notin IllegalOpcodes =>
             last.text \notin {"undefined opcode", "Unknown prefixed op"}
       /\ b0 \in IllegalOpcodes => last.text # "nop"

\* C5: the length disassemble returns is the number of bytes the instruction
\* occupies: one more than the operand bytes its mnemonic is formatted from
\* (the byte after the CB prefix counts as one); [0x00] gives ("nop", 1),
\* [0x3E, 0x42] a load of 0x42 into a with length 2, and [0xC3, 0x34, 0x12]
\* a jump to 0x1234 with length 3.
C5_LengthIsBytesUsed ==
    (last.op = "disassemble" /\ last.ret = "Ok") =>
       /\ last.len = 1 + last.operands
       /\ last.bytes[1] = 0 => (last.text = "nop" /\ last.len = 1)
       /\ (last.bytes[1] = 62 /\ last.bytes[2] = 66)
             => (last.text = "ld a, 0x42" /\ last.len = 2)
       /\ last.bytes = <<195, 52, 18>>
             => (last.text = "jp 1234" /\ last.len = 3)

\* C6: disassemble never fails: at every address, 0xFFFE and 0xFFFF
\* included, it returns a mnemonic and a length in 1..3, no sum that forms
\* an operand address overflows 16 bits, and no table index is out of range.
C6_DisassembleNeverFails ==
    last.op = "disassemble" =>
       /\ last.ret = "Ok"
       /\ last.len \in 1..3
       /\ ~last.overflow

\* C7: disassemble changes nothing: memory, the CPU's registers (PC and SP
\* among them), halted, interrupt_pending and the breakpoint map are after
\* the call what they were before it, and the call reads at most the three
\* bytes at addr, addr + 1, addr + 2.
C7_DisassembleReadsOnly ==
    last.op = "disassemble" =>
       /\ memory = prev.memory
       /\ registers = prev.registers
       /\ halted = prev.halted
       /\ interrupt_pending = prev.interrupt_pending
       /\ breakpoints = prev.breakpoints
       /\ Len(last.reads) <= 3
       /\ \A k \in 1..Len(last.reads) :
             last.reads[k] = Wrap16(last.addr + (k - 1))

\* disassemble called at an address that holds a breakpoint's marker byte
C7_Witness ==
    /\ last.op = "disassemble" /\ last.ret = "Ok"
    /\ last.addr \in DOMAIN breakpoints
    /\ last.bytes[1] = BREAKPOINT
    /\ Len(last.reads) = 3

\* C8: in every reachable state of the register file the low four bits of
\* the Flags register are zero.
C8_FlagsLowNibbleZero == And8(Reg(registers, "f"), 15) = 0

\* C9: a call of execute_with_cycles(bound) with bound > 0 on a Running CPU
\* ends as a return, having executed at least one instruction and
\* accumulated cycle costs of at least bound.
C9_ExecuteWithCyclesRuns ==
    (last.op = "execute_with_cycles" /\ last.cycle_bound > 0 /\ ~prev.halted)
       => (last.ret = "Ok" /\ last.ran >= 1 /\ last.cycles >= last.cycle_bound)

\* C10: a new CPU is Running with no interrupt pending; executing HALT
\* (opcode 0x76) on a Running CPU leaves it Halted; a step of a Halted CPU
\* fetches nothing; and a CPU with an interrupt pending is not left Halted
\* by a step.
C10_HaltStateMachine ==
    /\ last.op = "new" => (~halted /\ ~interrupt_pending)
    /\ (last.op \in {"nop", "ld_r_r"} /\ last.opcode = HALT /\ ~prev.halted)
          => halted
    /\ (last.op = "step" /\ prev.halted) => last.fetched = 0
    /\ (last.op = "step" /\ prev.interrupt_pending) => ~halted

(***************************************************************************)
(* Claims about operands and pair names in the mnemonics (SpecDis).        *)
(***************************************************************************)
\* 0x18 0x20 0x28 0x30 0x38
JrOpcodes == {24, 32, 40, 48, 56}
Signed8(b) == IF b < 128 THEN b ELSE b - 256

\* C11: for the relative jumps 0x18, 0x20, 0x28, 0x30, 0x38 the mnemonic
\* shows the operand byte b as the signed displacement b (b < 128) or
\* b - 256 (b >= 128), the interpretation the mnemonics of add sp, e and
\* ld hl, sp+e show.
C11_JrSignedDisplacement ==
    (last.op = "disassemble" /\ last.ret = "Ok") =>
       LET b0 == last.bytes[1]
           b == last.bytes[2]
           y == (b0 \div 8) % 8
           cc == IF y >= 4 THEN CC_STR[y - 3] ELSE ""
       IN  /\ b0 \in JrOpcodes =>
                last.text = Concat(<<"jr", cc, " ", Dec(Signed8(b))>>)
           /\ b0 = 232 => last.text = Concat(<<"add sp, ", Dec(Signed8(b))>>)
           /\ b0 = 248 => last.text = Concat(<<"ld hl, sp+", Dec(Signed8(b))>>)

\* The opcodes that select a pair by p: ld rr, nn / add hl, rr / inc rr /
\* dec rr (general) and pop rr / push rr.
GeneralPairOp(b0) ==
    LET t == extract_x_y_z_p_q(b0) IN t[1] = 0 /\ t[3] \in {1, 3}
StackPairOp(b0) ==
    LET t == extract_x_y_z_p_q(b0) IN t[1] = 3 /\ t[3] \in {1, 5} /\ t[5] = 0

\* The mnemonic of a pair operation with the pair called name.
PairMnemonic(bytes, name) ==
    LET t == extract_x_y_z_p_q(bytes[1])
        x == t[1]
        zz == t[3]
        q == t[5]
    IN  IF x = 0 /\ zz = 1 /\ q = 0
        THEN Concat(<<"ld ", name, ", 0x", Hex(bytes[2] + 256 * bytes[3])>>)
        ELSE IF x = 0 /\ zz = 1 THEN "add hl, " \o name
        ELSE IF x = 0 /\ q = 0 THEN "inc " \o name
        ELSE IF x = 0 THEN "dec " \o name
        ELSE IF zz = 1 THEN "pop " \o name
        ELSE "push " \o name

\* C12: index p in 0..3 selects BC, DE, HL and, at 3, SP for the general
\* pair operations and AF for push and pop; for every opcode that selects a
\* pair the disassembler's mnemonic names that pair and the register file's
\* pair indexing selects the same one, and no p in 0..3 is rejected.
C12_PairTablesAgree ==
    (last.op = "disassemble" /\ last.ret = "Ok"
       /\ (GeneralPairOp(last.bytes[1]) \/ StackPairOp(last.bytes[1]))) =>
       LET b0 == last.bytes[1]
           p == extract_x_y_z_p_q(b0)[4]
           pair == IF p < 3 THEN <<"bc", "de", "hl">>[p + 1]
                   ELSE IF GeneralPairOp(b0) THEN "sp" ELSE "af"
       IN  /\ last.text = PairMnemonic(last.bytes, pair)
           /\ DWordName(p) # "PANIC"
           /\ DWordName(p) = pair

(***************************************************************************)
(* Claims about the memory access helpers (SpecMem).                       *)
(***************************************************************************)
MemHelpers == {"read_instruction_byte", "read_hl", "write", "write_hl"}

\* C13: each of read_instruction_byte, read_hl, write and write_hl calls
\* the interconnect exactly once in an invocation, and when the interconnect
\* rejects the address the helper returns that error,
\* InvalidMemoryRead(address) or InvalidMemoryWrite(address), having written
\* nothing to memory.
C13_HelpersAccessOnce ==
    last.op \in MemHelpers =>
       /\ Len(last.accesses) = 1
       /\ \A k \in 1..Len(last.accesses) :
             LET a == last.accesses[k] IN
             IF a.addr \in unmapped
             THEN /\ last.ret = "Err"
                  /\ last.err = LRError(IF a.kind = "read"
                                        THEN "InvalidMemoryRead"
                                        ELSE "InvalidMemoryWrite", a.addr)
                  /\ memory = prev.memory
             ELSE last.ret = "Ok"

\* C16: read_instruction_byte returns the byte at the PC held before the
\* call and leaves PC = (old PC + 1) mod 2^16 and every other register as
\* it was; at PC = 0xFFFF the increment wraps to 0 and does not overflow.
C16_FetchAdvancesPC ==
    last.op = "read_instruction_byte" =>
       LET old == pc(prev.registers) IN
       /\ last.ret # "panic"
       /\ old \notin unmapped =>
             (last.ret = "Ok" /\ last.value = prev.memory[old])
       /\ pc(registers) = (old + 1) % 65536
       /\ \A n \in Reg8Names : Reg(registers, n) = Reg(prev.registers, n)
       /\ as_dwords(registers, "sp") = as_dwords(prev.registers, "sp")

(***************************************************************************)
(* Claims about the instruction functions (Spec).                          *)
(***************************************************************************)
\* The 8-bit operand the disassembler calls name, in registers r and
\* memory m.
Operand(r, m, name) ==
    IF name = "(hl)" THEN m[as_dwords(r, "hl")] ELSE Reg(r, name)

\* C14: for every opcode in 0x40..0x7F, ld_r_r makes the transfer the
\* disassembler names: "ld d, s" copies operand s (selected by z) to
\* operand d (selected by y), where b c d e h l a are the registers and
\* (hl) is the memory byte at address HL, never the Flags register; and
\* 0x76 is halt, not a load.
C14_LoadMatchesDisassembly ==
    (last.op = "ld_r_r" /\ last.opcode \in 64..127
       /\ as_dwords(prev.registers, "hl") \in DOMAIN prev.memory) =>
       LET t == extract_x_y_z_p_q(last.opcode)
           dst == R_STR[t[2] + 1]
           src == R_STR[t[3] + 1]
           v == Operand(prev.registers, prev.memory, src)
           text == Concat(DisMatch(<<last.opcode, 0, 0>>).parts)
       IN  IF last.opcode = HALT
           THEN /\ text = "halt"
                /\ halted
                /\ registers = prev.registers
                /\ memory = prev.memory
           ELSE /\ text = Concat(<<"ld ", dst, ", ", src>>)
                /\ Reg(registers, "f") = Reg(prev.registers, "f")
                /\ IF dst = "(hl)"
                   THEN /\ memory = [prev.memory EXCEPT
                                        ![as_dwords(prev.registers, "hl")] = v]
                        /\ registers = prev.registers
                   ELSE /\ registers = SetReg(prev.registers, dst, v)
                        /\ memory = prev.memory

\* The indices of B, C, D, E, H, L and A.
RealRegs == {0, 1, 2, 3, 4, 5, 7}

\* C15: for an opcode whose y and z are both among 0..5 and 7, ld_r_r
\* returns Ok and leaves register[y] equal to what register[z] held before
\* the call, with every other 8-bit register, Flags, PC, SP, halted,
\* interrupt_pending and memory unchanged, and the whole state unchanged
\* when y = z; nop changes no state, whatever the opcode.
C15_LdRRFrame ==
    /\ last.op = "ld_r_r" =>
          LET bits == OpcodeBits_from(last.opcode) IN
          (bits.y \in RealRegs /\ bits.z \in RealRegs) =>
             /\ last.ret = "Ok"
             /\ status = "ok"
             /\ index(registers, bits.y) = index(prev.registers, bits.z)
             /\ \A i \in (0..7) \ {bits.y} :
                   index(registers, i) = index(prev.registers, i)
             /\ as_dwords(registers, "pc") = as_dwords(prev.registers, "pc")
             /\ as_dwords(registers, "sp") = as_dwords(prev.registers, "sp")
             /\ halted = prev.halted
             /\ interrupt_pending = prev.interrupt_pending
             /\ memory = prev.memory
             /\ bits.y = bits.z => registers = prev.registers
    /\ last.op = "nop" =>
          /\ last.ret = "Ok"
          /\ registers = prev.registers
          /\ halted = prev.halted
          /\ interrupt_pending = prev.interrupt_pending
          /\ memory = prev.memory

\* a load between two different registers that held different values
C15_Witness ==
    /\ last.op = "ld_r_r"
    /\ LET bits == OpcodeBits_from(last.opcode) IN
          /\ bits.y \in RealRegs /\ bits.z \in RealRegs /\ bits.y # bits.z
          /\ index(prev.registers, bits.y) # index(prev.registers, bits.z)
          /\ index(registers, bits.y) = index(prev.registers, bits.z)

====
